---- MODULE Spec2Model ----
(***************************************************************************)
(* Model of readTemp.c: the MS5611-style acquisition sequencer (initGPIO,  *)
(* getRawTemp, getCalibData, getTemp) and the first-order temperature      *)
(* compensation (calcTempDiff, calcTemp); and, applied on their own, the   *)
(* functions the file defines but never calls: secondOrderTempComp with    *)
(* power, calcPressOffsetAtTemp and getRawPressure.                        *)
(*                                                                         *)
(* Every bus transaction (i2cWriteByte, i2cReadDevice) and every sleep is  *)
(* one step; its outcome is chosen by the environment.  The bus events of  *)
(* the current getTemp cycle are recorded in log.                          *)
(*                                                                         *)
(* TLC integers are 32 bits wide, so products that need more than 32 bits  *)
(* are carried as a pair [hi, lo] standing for hi * 2^20 + lo.             *)
(***************************************************************************)
EXTENDS Integers, Sequences, FiniteSets, TLC

VARIABLES
    pc,         \* position of the program
    cycles,     \* number of getTemp calls made so far
    resetRes,   \* result of the reset write in initGPIO
    log,        \* bus events of the current getTemp cycle, oldest first
    buf,        \* getRawTemp: char buf[3], as the bytes stored
    cbuf,       \* getCalibData: char buf[2], as the bytes stored
    i,          \* getCalibData: loop variable (PROM address)
    proms,      \* getTemp: u_int16_t proms[8]
    rawTemp,    \* getTemp / calcTemp: raw sample (32-bit pattern, as int32)
    dTemp,      \* calcTemp: temperature difference
    temp,       \* calcTemp: computed temperature
    ret,        \* what getTemp returned to its caller: <<>> or <<temp>>
    build,      \* integer model of the build
    charSigned, \* whether plain char is signed in the build
    devProm,    \* environment: 16-bit words of the device PROM
    prevRaw,    \* compensation runs: the previous rawTemp, <<>> if none
    prevTemp,   \* compensation runs: the previous temperature
    correction, \* secondOrderTempComp: the value returned
    divisor,    \* secondOrderTempComp: exponent of the divisor used, 0 if none
    pressOffsetAtTemp,  \* calcPressOffsetAtTemp: int64_t result, wide
    rawPressure \* what getRawPressure returned: <<>> or <<rawPressure>>

vars == <<pc, cycles, resetRes, log, buf, cbuf, i, proms, rawTemp, dTemp,
          temp, ret, build, charSigned, devProm, prevRaw, prevTemp,
          correction, divisor, pressOffsetAtTemp, rawPressure>>

(***************************************************************************)
(* Bounds of the model.                                                    *)
(***************************************************************************)
MaxCycles == 2      \* getTemp calls per run
Spread == 1         \* raw samples taken this far around referenceTemp * 2^8

(***************************************************************************)
(* Protocol constants.                                                     *)
(***************************************************************************)
CMD_RESET == 30
PROM_START == 160
PROM_STOP == 174
ADC_READ == 0
CONVERT_D1_OSR8192 == 74
CONVERT_D2_OSR8192 == 90

Unset == -1         \* an array slot that was never stored to

(***************************************************************************)
(* Outcomes of the transport calls.  i2cWriteByte returns 0 or a negative  *)
(* error code; i2cReadDevice returns the number of bytes read or a         *)
(* negative error code.                                                    *)
(***************************************************************************)
WriteResults == {-1, 0}
ReadResults(n) == -1 .. n

Ev(op, arg, res) == [op |-> op, arg |-> arg, res |-> res]
EvWait == Ev("wait", 1, 0)

\* the conditions under which the code takes its exit(EXIT_FAILURE) branch
WriteFailed(res) == res # 0
ReadFailedMut(res) == res < 0
ReadFailed(res) == res <= 0

(***************************************************************************)
(* Environment: the device.  PROM images and ADC conversion results the    *)
(* device may hold; word 5 (address 0xAA) is the reference temperature and *)
(* word 6 (address 0xAC) the temperature coefficient.                      *)
(***************************************************************************)
PromImages ==
    { [k \in 0..7 |-> CASE k = 5 -> 29024 [] k = 6 -> 24926 [] OTHER -> 256 * k + 17],
      [k \in 0..7 |-> CASE k = 5 -> 33464 [] k = 6 -> 129 [] OTHER -> 65535 - k] }

AdcSamples == { <<130, 60, 0>>, <<113, 96, 0>>, <<0, 128, 255>> }

HiByte(w) == w \div 256
LoByte(w) == w % 256

\* the bytes the device sends for the PROM word at address a
PromBytes(a) == LET w == devProm[(a - PROM_START) \div 2]
                IN  <<HiByte(w), LoByte(w)>>

\* i2cReadDevice: the first n bytes of the buffer are overwritten
Fill(old, data, n) == [k \in 1..Len(old) |-> IF k <= n THEN data[k] ELSE old[k]]

(***************************************************************************)
(* C integer operations.                                                   *)
(***************************************************************************)
\* the int value of a char holding byte b
CharVal(b) == IF charSigned /\ b >= 128 THEN b - 256 ELSE b

\* bitwise | of two ints (two's complement)
RECURSIVE Or(_, _)
Or(a, b) == IF a = 0 THEN b
            ELSE IF b = 0 THEN a
            ELSE IF a = -1 \/ b = -1 THEN -1
            ELSE 2 * Or(a \div 2, b \div 2)
                 + (IF a % 2 = 1 \/ b % 2 = 1 THEN 1 ELSE 0)

\* conversion to u_int16_t
ToU16(x) == x % 65536

\* a wide integer hi * 2^20 + lo with 0 <= lo < 2^20
ToWide(x) == [hi |-> x \div (2^20), lo |-> x % (2^20)]

\* the low 32 bits of a wide integer, read as int32
Wrap32(w) == LET h == w.hi % 4096
             IN  (IF h >= 2048 THEN h - 4096 ELSE h) * (2^20) + w.lo

\* the exact product d * c of an int32 d and a 16-bit c, as a wide integer
MulInt(d, c) ==
    LET dh == d \div 4096
        dl == d % 4096
        ch == c \div 256
        cl == c % 256
        m  == dh * cl
        L  == (m % 256) * 4096 + dl * ch * 256 + dl * cl
    IN  [hi |-> dh * ch + (m \div 256) + (L \div (2^20)), lo |-> L % (2^20)]

\* floor(w / 2^23) of a wide integer
FloorDiv23(w) == w.hi \div 8

\* sum of two wide integers
WideAdd(a, b) == LET l == a.lo + b.lo
                 IN  [hi |-> a.hi + b.hi + (l \div (2^20)), lo |-> l % (2^20)]

\* w * 2^16 and w * 2^20
WideShl16(w) == [hi |-> w.hi * 65536 + (w.lo \div 16), lo |-> (w.lo % 16) * 65536]
WideShl20(w) == [hi |-> w.hi * (2^20) + w.lo, lo |-> 0]

\* the exact product a * b of two ints
Mul32(a, b) == WideAdd(MulInt(a, b % 65536), WideShl16(MulInt(a, b \div 65536)))

\* the exact product a * w of an int and a wide integer
MulWide(a, w) == WideAdd(WideShl20(Mul32(a, w.hi)), Mul32(a, w.lo))

\* an int multiplication a * w: undefined on overflow, the build either
\* keeps the low 32 bits or carries the exact product
IntMul(a, w, b) == IF b = "lp64_wide" THEN MulWide(a, w)
                   ELSE ToWide(Wrap32(MulWide(a, w)))

\* (int)((unsigned long long)w / (1ULL << k)) for 32 <= k < 52:
\* w is taken modulo 2^64, so a negative w is 2^64 + w, the quotient is
\* 2^(64-k) + floor(w / 2^k), and the conversion to int keeps 32 bits
ULLDivToInt(w, k) ==
    LET f == w.hi \div (2^(k - 20))
        h == IF k <= 32 THEN 0 ELSE 2^(64 - k)
    IN  Wrap32(ToWide(IF w.hi < 0 THEN h + f ELSE f))

(***************************************************************************)
(* Sequencer: line 120 and line 75.                                        *)
(***************************************************************************)
AssembleRawMut(b) == Or(Or(CharVal(b[1]) * 65536, CharVal(b[2]) * 256), CharVal(b[1]))
AssembleRaw(b) == Or(Or(CharVal(b[1]) * 65536, CharVal(b[2]) * 256), CharVal(b[3]))

AssembleWord(b) == ToU16(Or(CharVal(b[1]) * 256, CharVal(b[2])))

PromIndexMut(a) == (a - PROM_START) \div 2 + 1
PromIndex(a) == (a - PROM_START) \div 2

(***************************************************************************)
(* Compensation engine.                                                    *)
(***************************************************************************)
\* line 134: unsigned 32-bit subtraction, converted to int
calcTempDiffMut(raw, refTemp) == Wrap32(ToWide(raw - refTemp * 128))
calcTempDiffMut16(raw, refTemp) == Wrap32(ToWide(raw - ToU16(refTemp * 256)))
calcTempDiff(raw, refTemp) == Wrap32(ToWide(raw - refTemp * 256))

\* line 151: temp = 2000 + dTemp * proms[6] / (1UL << 23).
\* dTemp * proms[6] is an int product (undefined on overflow: the build
\* either keeps the low 32 bits or carries the exact product into the
\* unsigned long division); the product is converted to unsigned long, the
\* division and the addition are unsigned, and the sum is narrowed to
\* int32_t.
\*   ilp32     : unsigned long has 32 bits: u = p mod 2^32, and u / 2^23 is
\*               floor(p32 / 2^23) mod 2^9.
\*   lp64_wrap : unsigned long has 64 bits, product wrapped to int first:
\*               u / 2^23 = floor(p32 / 2^23) mod 2^41, and 2^41 vanishes
\*               in the narrowing to 32 bits.
\*   lp64_wide : as lp64_wrap with the exact product.
Quotient(d, c, b) ==
    LET w   == MulInt(d, c)
        p32 == Wrap32(w)
    IN  CASE b = "ilp32"     -> (p32 \div (2^23)) % 512
          [] b = "lp64_wrap" -> p32 \div (2^23)
          [] b = "lp64_wide" -> FloorDiv23(w)

TempOf(d, c, b) == Wrap32(ToWide(2000 + Quotient(d, c, b)))

calcTempMut(raw, pr, b) == TempOf(calcTempDiff(raw, pr[4]), pr[5], b)
calcTemp(raw, pr, b) == TempOf(calcTempDiff(raw, pr[5]), pr[6], b)

Builds == {"ilp32", "lp64_wrap", "lp64_wide"}

\* power, lines 252-258: the result as a wide integer
RECURSIVE power(_, _, _)
power(base, exp, b) == IF exp # 0 THEN IntMul(base, power(base, exp - 1, b), b)
                       ELSE ToWide(1)

\* secondOrderTempComp, lines 164-172
LowerBranchMut(t) == t <= 2000
LowerBranch(t) == t < 2000

DivisorUsed(t) == IF LowerBranch(t) THEN 32 ELSE 38

secondOrderTempComp(t, d, b) ==
    IF LowerBranch(t)
    THEN ULLDivToInt(IntMul(3, power(d, 2, b), b), 32)
    ELSE ULLDivToInt(IntMul(5, power(d, 2, b), b), 38)

(***************************************************************************)
(* Initial state: the process before initGPIO is called.                   *)
(***************************************************************************)
\* results of the functions that getTemp never calls
Unused ==
    /\ correction = 0
    /\ divisor = 0
    /\ pressOffsetAtTemp = ToWide(0)
    /\ rawPressure = <<>>

Locals0 ==
    /\ log = <<>>
    /\ buf = <<0, 0, 0>>
    /\ cbuf = <<0, 0>>
    /\ i = PROM_START
    /\ proms = [k \in 0..7 |-> Unset]
    /\ rawTemp = 0
    /\ dTemp = 0
    /\ temp = 0
    /\ ret = <<>>

Init ==
    /\ pc = "gpioInitialise"
    /\ cycles = 0
    /\ resetRes = 0
    /\ Locals0
    /\ build \in Builds
    /\ charSigned \in BOOLEAN
    /\ devProm \in PromImages
    /\ prevRaw = <<>>
    /\ prevTemp = 0
    /\ Unused

Env == <<build, charSigned, devProm, prevRaw, prevTemp,
         correction, divisor, pressOffsetAtTemp, rawPressure>>

(***************************************************************************)
(* initGPIO, lines 30-50.                                                  *)
(***************************************************************************)
GpioInitialise ==
    /\ pc = "gpioInitialise"
    /\ \E r \in {-1, 0} :
          pc' = IF r < 0 THEN "exited" ELSE "i2cOpen"
    /\ UNCHANGED <<cycles, resetRes, log, buf, cbuf, i, proms, rawTemp,
                   dTemp, temp, ret, Env>>

I2cOpen ==
    /\ pc = "i2cOpen"
    /\ \E h \in {-1, 0} :
          pc' = IF h < 0 THEN "exited" ELSE "reset"
    /\ UNCHANGED <<cycles, resetRes, log, buf, cbuf, i, proms, rawTemp,
                   dTemp, temp, ret, Env>>

\* lines 46-49: a failed reset write is printed, and fd is returned
SendReset ==
    /\ pc = "reset"
    /\ \E r \in WriteResults :
          /\ resetRes' = r
          /\ pc' = "idle"
    /\ UNCHANGED <<cycles, log, buf, cbuf, i, proms, rawTemp, dTemp, temp,
                   ret, Env>>

(***************************************************************************)
(* getTemp, lines 80-86: the caller holds fd and calls getTemp.            *)
(***************************************************************************)
GetTempCall ==
    /\ pc = "idle"
    /\ cycles < MaxCycles
    /\ cycles' = cycles + 1
    /\ pc' = "rt_trigger"
    /\ log' = <<>>
    /\ buf' = <<0, 0, 0>>
    /\ cbuf' = <<0, 0>>
    /\ i' = PROM_START
    /\ proms' = [k \in 0..7 |-> Unset]
    /\ rawTemp' = 0
    /\ dTemp' = 0
    /\ temp' = 0
    /\ ret' = <<>>
    /\ UNCHANGED <<resetRes, Env>>

(***************************************************************************)
(* getRawTemp, lines 95-122.                                               *)
(***************************************************************************)
RawTempTrigger ==
    /\ pc = "rt_trigger"
    /\ \E r \in WriteResults :
          /\ log' = Append(log, Ev("write", CONVERT_D2_OSR8192, r))
          /\ pc' = IF WriteFailed(r) THEN "exited" ELSE "rt_wait1"
    /\ UNCHANGED <<cycles, resetRes, buf, cbuf, i, proms, rawTemp, dTemp,
                   temp, ret, Env>>

RawTempWait1Mut ==
    /\ pc = "rt_wait1"
    /\ pc' = "rt_adc"
    /\ UNCHANGED <<cycles, resetRes, log, buf, cbuf, i, proms, rawTemp, dTemp,
                   temp, ret, Env>>

RawTempWait1 ==
    /\ pc = "rt_wait1"
    /\ log' = Append(log, EvWait)
    /\ pc' = "rt_adc"
    /\ UNCHANGED <<cycles, resetRes, buf, cbuf, i, proms, rawTemp, dTemp,
                   temp, ret, Env>>

RawTempAdcRead ==
    /\ pc = "rt_adc"
    /\ \E r \in WriteResults :
          /\ log' = Append(log, Ev("write", ADC_READ, r))
          /\ pc' = IF WriteFailed(r) THEN "exited" ELSE "rt_read"
    /\ UNCHANGED <<cycles, resetRes, buf, cbuf, i, proms, rawTemp, dTemp,
                   temp, ret, Env>>

RawTempRead ==
    /\ pc = "rt_read"
    /\ \E n \in ReadResults(3), data \in AdcSamples :
          /\ log' = Append(log, Ev("read", 3, n))
          /\ IF ReadFailed(n)
             THEN pc' = "exited" /\ buf' = buf
             ELSE pc' = "rt_wait2" /\ buf' = Fill(buf, data, n)
    /\ UNCHANGED <<cycles, resetRes, cbuf, i, proms, rawTemp, dTemp, temp,
                   ret, Env>>

\* lines 118-121, and the entry of getCalibData (lines 58-61)
RawTempWait2 ==
    /\ pc = "rt_wait2"
    /\ log' = Append(log, EvWait)
    /\ rawTemp' = AssembleRaw(buf)
    /\ cbuf' = <<0, 0>>
    /\ i' = PROM_START
    /\ pc' = IF PROM_START < PROM_STOP THEN "cal_write" ELSE "calc"
    /\ UNCHANGED <<cycles, resetRes, buf, proms, dTemp, temp, ret, Env>>

(***************************************************************************)
(* getCalibData, lines 57-78.                                              *)
(***************************************************************************)
CalibWriteMut ==
    /\ pc = "cal_write"
    /\ \E r \in WriteResults :
          /\ log' = Append(log, Ev("write", i, r))
          /\ pc' = IF ~WriteFailed(r) THEN "cal_read"
                   ELSE IF log[Len(log)].op = "write" THEN "exited"
                   ELSE "cal_write"
    /\ UNCHANGED <<cycles, resetRes, buf, cbuf, i, proms, rawTemp, dTemp,
                   temp, ret, Env>>

CalibWrite ==
    /\ pc = "cal_write"
    /\ \E r \in WriteResults :
          /\ log' = Append(log, Ev("write", i, r))
          /\ pc' = IF WriteFailed(r) THEN "exited" ELSE "cal_read"
    /\ UNCHANGED <<cycles, resetRes, buf, cbuf, i, proms, rawTemp, dTemp,
                   temp, ret, Env>>

LoopStepMut(a) == a + 4
LoopStep(a) == a + 2

LoopContinuesMut(a) == a <= PROM_STOP
LoopContinues(a) == a < PROM_STOP

CalibRead ==
    /\ pc = "cal_read"
    /\ \E n \in ReadResults(2) :
          /\ log' = Append(log, Ev("read", 2, n))
          /\ IF ReadFailed(n)
             THEN /\ pc' = "exited"
                  /\ UNCHANGED <<cbuf, proms, i>>
             ELSE /\ cbuf' = Fill(cbuf, PromBytes(i), n)
                  /\ proms' = [proms EXCEPT ![PromIndex(i)] = AssembleWord(cbuf')]
                  /\ i' = LoopStep(i)
                  /\ pc' = IF LoopContinues(i') THEN "cal_write" ELSE "calc"
    /\ UNCHANGED <<cycles, resetRes, buf, rawTemp, dTemp, temp, ret, Env>>

(***************************************************************************)
(* calcTemp as called from getTemp, lines 84-85 and 146-155.               *)
(***************************************************************************)
CalcTemp ==
    /\ pc = "calc"
    /\ dTemp' = calcTempDiff(rawTemp, proms[5])
    /\ temp' = calcTemp(rawTemp, proms, build)
    /\ ret' = <<temp'>>
    /\ pc' = "idle"
    /\ UNCHANGED <<cycles, resetRes, log, buf, cbuf, i, proms, rawTemp, Env>>

Next ==
    \/ GpioInitialise
    \/ I2cOpen
    \/ SendReset
    \/ GetTempCall
    \/ RawTempTrigger
    \/ RawTempWait1
    \/ RawTempAdcRead
    \/ RawTempRead
    \/ RawTempWait2
    \/ CalibWrite
    \/ CalibRead
    \/ CalcTemp

Spec == Init /\ [][Next]_vars

\* the steps of one getTemp call: the program is sequential, so a step that
\* is possible is taken once the transport call or the sleep returns
CycleStep ==
    \/ RawTempTrigger
    \/ RawTempWait1
    \/ RawTempAdcRead
    \/ RawTempRead
    \/ RawTempWait2
    \/ CalibWrite
    \/ CalibRead
    \/ CalcTemp

SpecLive == Init /\ [][Next]_vars /\ WF_vars(CycleStep)

(***************************************************************************)
(* Compensation runs: calcTemp applied to raw samples drawn from a bounded *)
(* set, for calibration constants fixed at the start of the run.           *)
(***************************************************************************)
RefSamples == {0, 1, 29024, 33464, 65535}
CoeffSamples == {0, 1, 129, 24926, 65535}

RawSamples(refTemp) ==
    {0, 8540160, 16646144, 2^24 - 1}
      \cup ({refTemp * 256 + k : k \in -Spread..Spread} \cap (0 .. 2^24 - 1))

InitCalc ==
    /\ pc = "compensate"
    /\ cycles = 0
    /\ resetRes = 0
    /\ log = <<>>
    /\ buf = <<0, 0, 0>>
    /\ cbuf = <<0, 0>>
    /\ i = PROM_START
    /\ \E r \in RefSamples, c \in CoeffSamples :
          proms = [k \in 0..7 |-> CASE k = 5 -> r [] k = 6 -> c [] OTHER -> 0]
    /\ rawTemp = 0
    /\ dTemp = 0
    /\ temp = 0
    /\ ret = <<>>
    /\ build \in Builds
    /\ charSigned = FALSE
    /\ devProm = [k \in 0..7 |-> 0]
    /\ prevRaw = <<>>
    /\ prevTemp = 0
    /\ Unused

\* one call calcTemp(rawTemp, proms), lines 146-155
Compensate ==
    /\ pc = "compensate"
    /\ \E r \in RawSamples(proms[5]) :
          /\ prevRaw' = IF ret = <<>> THEN <<>> ELSE <<rawTemp>>
          /\ prevTemp' = temp
          /\ rawTemp' = r
          /\ dTemp' = calcTempDiff(r, proms[5])
          /\ temp' = calcTemp(r, proms, build)
          /\ ret' = <<temp'>>
    /\ UNCHANGED <<pc, cycles, resetRes, log, buf, cbuf, i, proms, build,
                   charSigned, devProm, correction, divisor,
                   pressOffsetAtTemp, rawPressure>>

NextCalc == Compensate

SpecCalc == InitCalc /\ [][NextCalc]_vars

\* calcPressOffsetAtTemp, lines 217-222:
\*   pressOffset * (1U << 17) + (tempCoeffOfPressOffset * dTemp) / (1U << 6)
\* The first product is unsigned int.  The second is an int product that
\* is converted to unsigned int for the division, so only its low 32 bits
\* count, whether or not the int product overflowed.  Division and sum are
\* unsigned int, and the sum is widened to int64_t.
ToU32(w) == [hi |-> w.hi % 4096, lo |-> w.lo]

WideDiv64(w) == [hi |-> w.hi \div 64,
                 lo |-> ((w.hi % 64) * (2^20) + w.lo) \div 64]

Shl17(x) == [hi |-> x \div 8, lo |-> (x % 8) * (2^17)]

calcPressOffsetAtTemp(d, pressOffset, tempCoeffOfPressOffset) ==
    ToU32(WideAdd(ToU32(Shl17(pressOffset)),
                  WideDiv64(ToU32(MulInt(d, tempCoeffOfPressOffset)))))

(***************************************************************************)
(* Pressure-offset runs: calcPressOffsetAtTemp applied once to inputs      *)
(* drawn from bounded sets; pressOffset is proms[2] and                    *)
(* tempCoeffOfPressOffset is proms[4].                                     *)
(***************************************************************************)
OffsetDTemps == {0, 1, -1, 64, -64, 1104896, -7430144, 2^24, -(2^24)}
PressOffsets == {0, 1, 32767, 32768, 36924, 65535}
OffsetCoeffs == {0, 1, 23317, 65535}

InitOffset ==
    /\ pc = "pressOffset"
    /\ cycles = 0
    /\ resetRes = 0
    /\ log = <<>>
    /\ buf = <<0, 0, 0>>
    /\ cbuf = <<0, 0>>
    /\ i = PROM_START
    /\ \E po \in PressOffsets, tc \in OffsetCoeffs :
          proms = [k \in 0..7 |-> CASE k = 2 -> po [] k = 4 -> tc [] OTHER -> 0]
    /\ rawTemp = 0
    /\ dTemp \in OffsetDTemps
    /\ temp = 0
    /\ ret = <<>>
    /\ build \in Builds
    /\ charSigned = FALSE
    /\ devProm = [k \in 0..7 |-> 0]
    /\ prevRaw = <<>>
    /\ prevTemp = 0
    /\ Unused

\* one call calcPressOffsetAtTemp(dTemp, proms[2], proms[4])
PressOffset ==
    /\ pc = "pressOffset"
    /\ pressOffsetAtTemp' = calcPressOffsetAtTemp(dTemp, proms[2], proms[4])
    /\ pc' = "pressOffsetDone"
    /\ UNCHANGED <<cycles, resetRes, log, buf, cbuf, i, proms, rawTemp, dTemp,
                   temp, ret, build, charSigned, devProm, prevRaw, prevTemp,
                   correction, divisor, rawPressure>>

NextOffset == PressOffset

SpecOffset == InitOffset /\ [][NextOffset]_vars

(***************************************************************************)
(* Pressure runs: getRawPressure, lines 177-203, called with an open       *)
(* handle.                                                                 *)
(***************************************************************************)
\* line 195: the condition of the exit branch after the 3-byte read
PressReadFailedMut(res) == res <= 0
PressReadFailed(res) == res <= 3

\* line 201: (buf[0] << 16) | (buf[1] << 8) | (buf[0])
AssemblePressure(b) ==
    Or(Or(CharVal(b[1]) * 65536, CharVal(b[2]) * 256), CharVal(b[1]))

InitPress ==
    /\ pc = "idle"
    /\ cycles = 0
    /\ resetRes = 0
    /\ Locals0
    /\ build \in Builds
    /\ charSigned \in BOOLEAN
    /\ devProm \in PromImages
    /\ prevRaw = <<>>
    /\ prevTemp = 0
    /\ Unused

PressVars == <<cycles, resetRes, cbuf, i, proms, rawTemp, dTemp, temp, ret,
               build, charSigned, devProm, prevRaw, prevTemp, correction,
               divisor, pressOffsetAtTemp>>

\* entry, lines 178-180
GetRawPressureCall ==
    /\ pc = "idle"
    /\ pc' = "rp_trigger"
    /\ buf' = <<0, 0, 0>>
    /\ UNCHANGED <<log, rawPressure, PressVars>>

PressTrigger ==
    /\ pc = "rp_trigger"
    /\ \E r \in WriteResults :
          /\ log' = Append(log, Ev("write", CONVERT_D1_OSR8192, r))
          /\ pc' = IF WriteFailed(r) THEN "exited" ELSE "rp_wait1"
    /\ UNCHANGED <<buf, rawPressure, PressVars>>

PressWait1 ==
    /\ pc = "rp_wait1"
    /\ log' = Append(log, EvWait)
    /\ pc' = "rp_adc"
    /\ UNCHANGED <<buf, rawPressure, PressVars>>

PressAdcRead ==
    /\ pc = "rp_adc"
    /\ \E r \in WriteResults :
          /\ log' = Append(log, Ev("write", ADC_READ, r))
          /\ pc' = IF WriteFailed(r) THEN "exited" ELSE "rp_read"
    /\ UNCHANGED <<buf, rawPressure, PressVars>>

\* lines 195-202: the read, and what follows it when the test lets it pass
PressRead ==
    /\ pc = "rp_read"
    /\ \E n \in ReadResults(3), data \in AdcSamples :
          /\ buf' = Fill(buf, data, n)
          /\ IF PressReadFailed(n)
             THEN /\ log' = Append(log, Ev("read", 3, n))
                  /\ pc' = "exited"
                  /\ UNCHANGED rawPressure
             ELSE /\ log' = Append(Append(log, Ev("read", 3, n)), EvWait)
                  /\ rawPressure' = <<AssemblePressure(buf')>>
                  /\ pc' = "rp_returned"
    /\ UNCHANGED PressVars

NextPress ==
    \/ GetRawPressureCall
    \/ PressTrigger
    \/ PressWait1
    \/ PressAdcRead
    \/ PressRead

SpecPress == InitPress /\ [][NextPress]_vars

(***************************************************************************)
(* Second-order runs: secondOrderTempComp applied once to a temperature    *)
(* and a temperature difference drawn from bounded sets.                   *)
(***************************************************************************)
TempSamples == {2000 + k : k \in -Spread..Spread} \cup {-44569, 2211, 5283}
DTempSamples == {0, 1, -1, -256, 46341, 1104896, -15672320, 2^24 - 1, -16776960}

InitSecond ==
    /\ pc = "secondOrder"
    /\ cycles = 0
    /\ resetRes = 0
    /\ log = <<>>
    /\ buf = <<0, 0, 0>>
    /\ cbuf = <<0, 0>>
    /\ i = PROM_START
    /\ proms = [k \in 0..7 |-> 0]
    /\ rawTemp = 0
    /\ dTemp \in DTempSamples
    /\ temp \in TempSamples
    /\ ret = <<>>
    /\ build \in Builds
    /\ charSigned = FALSE
    /\ devProm = [k \in 0..7 |-> 0]
    /\ prevRaw = <<>>
    /\ prevTemp = 0
    /\ Unused

\* one call secondOrderTempComp(temp, dTemp), lines 164-172
SecondOrder ==
    /\ pc = "secondOrder"
    /\ divisor' = DivisorUsed(temp)
    /\ correction' = secondOrderTempComp(temp, dTemp, build)
    /\ pc' = "secondOrderDone"
    /\ UNCHANGED <<cycles, resetRes, log, buf, cbuf, i, proms, rawTemp, dTemp,
                   temp, ret, build, charSigned, devProm, prevRaw, prevTemp,
                   pressOffsetAtTemp, rawPressure>>

NextSecond == SecondOrder

SpecSecond == InitSecond /\ [][NextSecond]_vars

(***************************************************************************)
(* Vocabulary of the properties.                                           *)
(***************************************************************************)
Min(a, b) == IF a < b THEN a ELSE b

\* what an event is, without its result
ShapeSeq(s) == [k \in 1..Len(s) |-> <<s[k].op, s[k].arg>>]

EvFailed(e) == \/ e.op = "write" /\ e.res # 0
               \/ e.op = "read" /\ e.res <= 0

\* the events of getRawTemp and of getCalibData in the current cycle
RawTempLog == SubSeq(log, 1, Min(Len(log), 5))
CalibLog == SubSeq(log, 6, Len(log))

RawTempShape == << <<"write", 90>>, <<"wait", 1>>, <<"write", 0>>,
                   <<"read", 3>>, <<"wait", 1>> >>
CalibShape == [k \in 1..14 |-> IF k % 2 = 1 THEN <<"write", 160 + (k - 1)>>
                                            ELSE <<"read", 2>>]

RawTempReturned == \/ pc \in {"cal_write", "cal_read", "calc"}
                   \/ pc = "idle" /\ ret # <<>>
CalibReturned == \/ pc = "calc"
                 \/ pc = "idle" /\ ret # <<>>

PromCommands == {160, 162, 164, 166, 168, 170, 172}

\* the exact quotient p / 2^23 of a wide integer, truncated toward zero
TruncDiv23(w) == IF w.hi < 0 /\ ~(w.hi % 8 = 0 /\ w.lo = 0)
                 THEN w.hi \div 8 + 1
                 ELSE w.hi \div 8

(***************************************************************************)
(* C1: in getRawTemp and getCalibData, a bus write with a non-zero result  *)
(* or a bus read with a result <= 0 is the last bus event of the cycle:    *)
(* the process has exited, and getTemp has returned no temperature.        *)
(***************************************************************************)
C1_FailureStopsCycle ==
    \A k \in 1..Len(log) :
        EvFailed(log[k]) => k = Len(log) /\ pc = "exited" /\ ret = <<>>

C1_Witness ==
    /\ pc = "exited"
    /\ Len(log) > 5
    /\ log[Len(log)].op = "read"
    /\ log[Len(log)].res = 0

(***************************************************************************)
(* C2: after a failed write of the reset command in initGPIO, no PROM      *)
(* address command, conversion trigger or ADC-read command is written.     *)
(***************************************************************************)
C2_ResetFailureStops ==
    resetRes # 0 =>
        \A k \in 1..Len(log) :
            ~(log[k].op = "write"
              /\ log[k].arg \in PromCommands \cup {74, 90, 0})

(***************************************************************************)
(* C3: a bus read that returns fewer bytes than requested makes the        *)
(* enclosing operation fail: it is the last bus event and the process has  *)
(* exited, so no word or sample is assembled from the buffer.              *)
(***************************************************************************)
C3_ShortReadFails ==
    \A k \in 1..Len(log) :
        (log[k].op = "read" /\ log[k].res < log[k].arg)
            => k = Len(log) /\ pc = "exited"

(***************************************************************************)
(* C4: the bus events of getRawTemp are at every moment a prefix of        *)
(* (write 0x5A, wait, write 0x00, read 3 bytes, wait), so the read never   *)
(* precedes the trigger, the wait and the ADC-read command; and once       *)
(* getRawTemp has returned they are exactly these five, none of which      *)
(* occurs again in the cycle.                                              *)
(***************************************************************************)
C4_RawTempOrder ==
    /\ ShapeSeq(RawTempLog) = SubSeq(RawTempShape, 1, Len(RawTempLog))
    /\ RawTempReturned =>
          /\ ShapeSeq(RawTempLog) = RawTempShape
          /\ \A k \in 1..5 : ~EvFailed(log[k])
          /\ \A k \in 6..Len(log) :
                <<log[k].op, log[k].arg>> \notin
                    { RawTempShape[j] : j \in 1..5 }

C4_Witness ==
    /\ pc = "cal_write"
    /\ Len(log) = 5
    /\ log[4].res = 3

(***************************************************************************)
(* C5: the bus events of getCalibData are at every moment a prefix of      *)
(* (write 0xA0, read 2, write 0xA2, read 2, ..., write 0xAC, read 2), and  *)
(* once getCalibData has returned they are exactly these 7 pairs; 0xAE is  *)
(* never written.                                                          *)
(***************************************************************************)
C5_CalibOrder ==
    /\ Len(CalibLog) <= 14
    /\ ShapeSeq(CalibLog) = SubSeq(CalibShape, 1, Min(Len(CalibLog), 14))
    /\ \A k \in 1..Len(log) : ~(log[k].op = "write" /\ log[k].arg = PROM_STOP)
    /\ CalibReturned => Len(CalibLog) = 14

C5_Witness ==
    /\ pc = "calc"
    /\ \A k \in 1..Len(log) : log[k].op = "read" => log[k].res = log[k].arg

(***************************************************************************)
(* C6 as stated: a completed getCalibData has made exactly 6 two-byte      *)
(* reads, has written exactly the addresses 0xA2..0xAC, and has populated  *)
(* exactly 6 slots.                                                        *)
(***************************************************************************)
CalibReads == {k \in 1..Len(log) : log[k].op = "read" /\ log[k].arg = 2}
CalibAddresses == {log[k].arg : k \in {j \in 6..Len(log) : log[j].op = "write"}}
Populated == {k \in 0..7 : proms[k] # Unset}

C6_SixTransactions ==
    CalibReturned =>
        /\ Cardinality(CalibReads) = 6
        /\ CalibAddresses = PromCommands \ {PROM_START}
        /\ Cardinality(Populated) = 6

(***************************************************************************)
(* C6 amended: a completed getCalibData has made exactly 7 two-byte reads, *)
(* has written exactly the addresses 0xA0, 0xA2, ..., 0xAC, and has        *)
(* populated exactly the 7 slots 0..6.                                     *)
(***************************************************************************)
C6_SevenTransactions ==
    CalibReturned =>
        /\ Cardinality(CalibReads) = 7
        /\ CalibAddresses = PromCommands
        /\ Populated = 0..6

C6_Witness ==
    /\ pc = "idle"
    /\ ret # <<>>
    /\ Cardinality(CalibReads) = 7

(***************************************************************************)
(* C7: calcTemp is reached only after getCalibData has written all 7       *)
(* addresses with result 0, read after each with a result > 0, and stored  *)
(* a word in each of the slots 0..6.                                       *)
(***************************************************************************)
C7_CalcAfterFullCalib ==
    (pc = "calc" \/ ret # <<>>) =>
        /\ Len(log) = 19
        /\ \A j \in 0..6 :
              /\ log[6 + 2 * j] = Ev("write", PROM_START + 2 * j, 0)
              /\ log[7 + 2 * j].op = "read"
              /\ log[7 + 2 * j].res > 0
              /\ proms[j] # Unset

C7_Witness ==
    /\ pc = "idle"
    /\ ret # <<>>
    /\ \E k \in 1..Len(log) : log[k].op = "read" /\ log[k].res = 1 /\ log[k].arg = 2

(***************************************************************************)
(* C8: when rawTemp = referenceTemp * 2^8, calcTempDiff is 0 and calcTemp  *)
(* is 2000.                                                                *)
(***************************************************************************)
C8_ReferencePoint ==
    (ret # <<>> /\ rawTemp = proms[5] * 256) => dTemp = 0 /\ temp = 2000

C8_Witness ==
    /\ pc = "compensate"
    /\ ret # <<>>
    /\ rawTemp = proms[5] * 256
    /\ proms[5] = 65535
    /\ proms[6] = 65535

(***************************************************************************)
(* C9: calcTemp returns 2000 + (dTemp * tempCoeffOfTemperature) / 2^23     *)
(* with the exact product and the quotient truncated toward zero.          *)
(***************************************************************************)
C9_ExactTruncating ==
    (pc = "compensate" /\ ret # <<>>) =>
        temp = 2000 + TruncDiv23(MulInt(rawTemp - proms[5] * 256, proms[6]))

(***************************************************************************)
(* C10: for fixed constants with tempCoeffOfTemperature > 0, a raw sample  *)
(* that is not smaller gives a temperature that is not smaller.            *)
(***************************************************************************)
C10_Monotonic ==
    (prevRaw # <<>> /\ proms[6] > 0 /\ prevRaw[1] <= rawTemp)
        => prevTemp <= temp

(***************************************************************************)
(* The scenario of C11: getRawTemp received the three bytes 0x82, 0x3C,    *)
(* 0x00, and the calibration constants are 29024 and 24926.                *)
(***************************************************************************)
ScenarioBytes == /\ RawTempReturned
                 /\ log[4].res = 3
                 /\ buf = <<130, 60, 0>>
ScenarioDone == /\ ScenarioBytes
                /\ ret # <<>>
                /\ proms[5] = 29024
                /\ proms[6] = 24926

C12_ExactDifference ==
    (pc = "compensate" /\ ret # <<>>) => dTemp = rawTemp - proms[5] * 256

C12_Witness ==
    /\ pc = "compensate"
    /\ ret # <<>>
    /\ rawTemp = 0
    /\ proms[5] = 65535
    /\ dTemp = -16776960

(***************************************************************************)
(* C13: the raw sample returned by getRawTemp is                           *)
(* byte0 * 2^16 + byte1 * 2^8 + byte2 of the bytes in the buffer, and lies *)
(* in 0 .. 2^24 - 1.                                                       *)
(***************************************************************************)
C13_BigEndian24 ==
    RawTempReturned =>
        /\ rawTemp = buf[1] * 65536 + buf[2] * 256 + buf[3]
        /\ rawTemp \in 0 .. (2^24 - 1)

(***************************************************************************)
(* C14: secondOrderTempComp divides by 2^32 (lower branch) exactly when    *)
(* temp < 2000, and by 2^38 (upper branch) for every temp >= 2000,         *)
(* temp = 2000 included.                                                   *)
(***************************************************************************)
C14_BranchAt2000 ==
    pc = "secondOrderDone" =>
        /\ (divisor = 32) <=> (temp < 2000)
        /\ (divisor = 38) <=> (temp >= 2000)

C14_Witness ==
    /\ pc = "secondOrderDone"
    /\ temp = 2000
    /\ divisor = 38

(***************************************************************************)
(* C15: the temperature returned is the first-order temperature minus the  *)
(* second-order correction computed from (temp, dTemp).                    *)
(***************************************************************************)
C15_CorrectionApplied ==
    (pc = "compensate" /\ ret # <<>>) =>
        ret = <<temp - secondOrderTempComp(temp, dTemp, build)>>

(***************************************************************************)
(* C16: calcPressOffsetAtTemp returns the exact value                      *)
(* pressOffset * 2^17 + (tempCoeffOfPressOffset * dTemp) / 2^6, the        *)
(* quotient truncated toward zero.                                         *)
(***************************************************************************)
TruncDiv64(w) == IF w.hi < 0 /\ w.lo % 64 # 0
                 THEN WideAdd(WideDiv64(w), ToWide(1))
                 ELSE WideDiv64(w)

C16_Exact64 ==
    pc = "pressOffsetDone" =>
        pressOffsetAtTemp =
            WideAdd(Shl17(proms[2]), TruncDiv64(MulInt(dTemp, proms[4])))

(***************************************************************************)
(* C17: once getRawPressure has received its three bytes, the raw pressure *)
(* sample is byte0 * 2^16 + byte1 * 2^8 + byte2, the third received byte   *)
(* in the least-significant position.                                      *)
(***************************************************************************)
PressureBytesReceived ==
    \E k \in 1..Len(log) : log[k].op = "read" /\ log[k].res = 3

C17_PressureBigEndian ==
    (pc \in {"exited", "rp_returned"} /\ PressureBytesReceived) =>
        rawPressure = <<buf[1] * 65536 + buf[2] * 256 + buf[3]>>

(***************************************************************************)
(* C19: getRawPressure never returns a raw pressure value: its 3-byte      *)
(* read, whatever its result, is the last bus event and the process has    *)
(* exited; no wait follows the read and no sample is assembled.            *)
(***************************************************************************)
C19_PressureNeverReturns ==
    /\ rawPressure = <<>>
    /\ pc # "rp_returned"
    /\ \A k \in 1..Len(log) :
          log[k].op = "read" => k = Len(log) /\ pc = "exited"
    /\ Cardinality({k \in 1..Len(log) : log[k].op = "wait"}) <= 1

C19_Witness ==
    /\ pc = "exited"
    /\ PressureBytesReceived
    /\ buf = <<130, 60, 0>>

(***************************************************************************)
(* C18: the word read after writing address A is stored at index           *)
(* (A - 0xA0) / 2, slot 7 is never stored to, and calcTemp computes from   *)
(* the words read after 0xAA and 0xAC in the same cycle.                   *)
(***************************************************************************)
\* the buffer of getCalibData after its j-th read, rebuilt from the log
RECURSIVE CbufAfter(_)
CbufAfter(j) == IF j = 0 THEN <<0, 0>>
                ELSE Fill(CbufAfter(j - 1), PromBytes(log[4 + 2 * j].arg),
                          log[5 + 2 * j].res)

\* the j-th read of getCalibData has been made and passed the test
WordRead(j) == Len(log) >= 5 + 2 * j /\ log[5 + 2 * j].res > 0

\* the word assembled after the read that followed the write of address a
WordAt(a) == AssembleWord(CbufAfter((a - 160) \div 2 + 1))

C18_IndexMapping ==
    /\ proms[7] = Unset
    /\ \A j \in 1..7 :
          IF WordRead(j)
          THEN proms[(log[4 + 2 * j].arg - 160) \div 2]
                   = AssembleWord(CbufAfter(j))
          ELSE proms[j - 1] = Unset
    /\ ret # <<>> =>
          /\ log[16].arg = 170 /\ log[18].arg = 172
          /\ temp = TempOf(calcTempDiff(rawTemp, WordAt(170)), WordAt(172), build)
          /\ ret = <<temp>>

C18_Witness ==
    /\ ret # <<>>
    /\ pc = "idle"
    /\ ~charSigned
    /\ \A j \in 1..7 : log[5 + 2 * j].res = 2
    /\ proms[5] = devProm[5]
    /\ proms[6] = devProm[6]
    /\ proms[5] # proms[4]

(***************************************************************************)
(* C20: every getTemp cycle terminates: a cycle that has started leads to  *)
(* the return of a temperature or to the exit of the process.  A cycle     *)
(* that returns has made exactly 9 bus writes and 8 bus reads; a cycle     *)
(* that exits has done so at its first failed call; and no command is      *)
(* written twice within a cycle.                                           *)
(***************************************************************************)
InCycle == pc \in {"rt_trigger", "rt_wait1", "rt_adc", "rt_read", "rt_wait2",
                   "cal_write", "cal_read", "calc"}
CycleOver == pc = "exited" \/ (pc = "idle" /\ ret # <<>>)

Writes == {k \in 1..Len(log) : log[k].op = "write"}
Reads == {k \in 1..Len(log) : log[k].op = "read"}

CycleCounts ==
    /\ ret # <<>> =>
          /\ Cardinality(Writes) = 9
          /\ Cardinality(Reads) = 8
          /\ \A k \in 1..Len(log) : ~EvFailed(log[k])
    /\ (pc = "exited" /\ Len(log) > 0) =>
          /\ EvFailed(log[Len(log)])
          /\ \A k \in 1..(Len(log) - 1) : ~EvFailed(log[k])
    /\ \A j, k \in Writes : j # k => log[j].arg # log[k].arg

C20_CycleTerminates == []CycleCounts /\ (InCycle ~> CycleOver)

C20_Witness ==
    /\ pc = "idle"
    /\ ret # <<>>
    /\ cycles = 2
    /\ Cardinality(Writes) = 9

====
